---- MODULE Spec2Model ----
(***************************************************************************)
(* Virtual stepper (src/src/virtual_stepper.c): the per-stepper move       *)
(* queue, the timer callback that steps the position, and the command      *)
(* handlers, as a state machine.                                           *)
(*                                                                         *)
(* 32-bit unsigned values (uint32_t) are pairs <<hi, lo>> of 16-bit        *)
(* halves, so that every addition wraps at exactly 2^32.                   *)
(***************************************************************************)
EXTENDS Integers, Sequences, FiniteSets, TLC

(* ---------------------------------------------------------------- bounds *)

\* Number of requests one run issues, over all steppers: queue_step,
\* set_next_step_dir, reset_step_clock, set_position, Stop and shutdown count;
\* the configuration, get_position and the timer events do not.
MaxReq == 4

\* The stepper oids: Spec and MoveSpec configure oid 0 only, AllSpec both.
Oids == {0, 1}

MainOids == {0}

\* The move pool never runs out within MaxReq requests.
PoolSize == MaxReq

Slots == 1..PoolSize

NULL == 0

(* ------------------------------------------------------- fixed-width ints *)

\* 2^16: the width of uint16_t / int16_t and of one half of a uint32_t.
M16 == 65536

U32(hi, lo) == <<hi, lo>>

Zero32 == U32(0, 0)

One32 == U32(0, 1)

\* uint32_t addition, modulo 2^32.
Add32(x, y) ==
    LET lo == x[2] + y[2]
        hi == x[1] + y[1] + (lo \div M16)
    IN  U32(hi % M16, lo % M16)

\* Two's complement negation, modulo 2^32.
Neg32(x) == Add32(U32(M16 - 1 - x[1], M16 - 1 - x[2]), One32)

Sub32(x, y) == Add32(x, Neg32(y))

\* A natural number below 2^31 as a uint32_t.
FromNat(n) == U32((n \div M16) % M16, n % M16)

\* Conversion of a uint32_t to uint16_t: the low 16 bits.
ToU16(x) == x[2]

\* Conversion of a uint32_t to int16_t: the low 16 bits, two's complement.
ToI16(x) == IF x[2] >= M16 \div 2 THEN x[2] - M16 ELSE x[2]

\* An int16_t converted to uint32_t (sign extension), as `u32 + i16` does.
SignExt32(a) == IF a < 0 THEN U32(M16 - 1, a + M16) ELSE U32(0, a)

\* uint16_t subtraction of one, modulo 2^16.
Dec16(c) == (c + M16 - 1) % M16

\* k * x modulo 2^32, by repeated addition.
RECURSIVE Mul32(_, _)
Mul32(k, x) == IF k = 0 THEN Zero32 ELSE Add32(x, Mul32(k - 1, x))

(* ------------------------------------------------------------------ flags *)

\* enum { MF_DIR=1<<0 }
MF_DIR == 1

\* enum { SF_CURRENT_DIR=1<<0, SF_NEXT_DIR=1<<1 }
SFLAG_CURRENT_DIR == 1

SFLAG_NEXT_DIR == 2

\* The return codes of a timer callback (SF_DONE, SF_RESCHEDULE of sched.h).
RET_DONE == 0

RET_RESCHEDULE == 1

\* flags & bit  (bit is a power of two)
HasBit(f, bit) == (f \div bit) % 2 = 1

\* flags & ~bit
ClearBit(f, bit) == IF HasBit(f, bit) THEN f - bit ELSE f

\* a | b on the two flag bits in use
BitOr(a, b) ==
    (IF HasBit(a, 1) \/ HasBit(b, 1) THEN 1 ELSE 0)
    + (IF HasBit(a, 2) \/ HasBit(b, 2) THEN 2 ELSE 0)

(* -------------------------------------------------------------- move pool *)

\* struct virtual_stepper_move, plus whether the slot is allocated and (for
\* the properties only) the number of the request that filled it.
FreeMove ==
    [interval |-> Zero32, add |-> 0, count |-> 0, next |-> NULL, flags |-> 0,
     alloc |-> FALSE, seq |-> 0]

FreeSlots(mv) == {i \in Slots : ~mv[i].alloc}

\* move_alloc(): a free slot of the pool.
move_alloc(mv) == CHOOSE i \in FreeSlots(mv) : \A j \in FreeSlots(mv) : i <= j

\* move_free(m): the slot returns to the pool; its old content is dead.
move_free(mv, m) == [mv EXCEPT ![m] = FreeMove]

(* ---------------------------------------------------------------- stepper *)

\* struct virtual_stepper as oid_alloc() leaves it (zeroed memory); `armed`
\* is whether `time` is in the scheduler's timer list.
ZeroStepper ==
    [waketime |-> Zero32, armed |-> FALSE, interval |-> Zero32, add |-> 0,
     count |-> 0, position |-> Zero32, first |-> NULL, plast |-> NULL,
     flags |-> 0]

sched_add_timer(s) == [s EXCEPT !.armed = TRUE]

sched_del_timer(s) == [s EXCEPT !.armed = FALSE]

\* The descriptors reachable from s.first along the next links, head first.
RECURSIVE Walk(_, _, _)
Walk(mv, m, fuel) ==
    IF m = NULL \/ fuel = 0 THEN <<>>
    ELSE <<m>> \o Walk(mv, mv[m].next, fuel - 1)

Queue(s, mv) == Walk(mv, s.first, PoolSize)

\* Mutant: the direction bit of the descriptor is or-ed into flags without
\* clearing the current-direction bit first.
virtual_stepper_load_next_keepdir(s, mv) ==
    LET m == s.first IN
    IF m = NULL
    THEN [s |-> [s EXCEPT !.count = 0], mv |-> mv, ret |-> RET_DONE, m |-> NULL]
    ELSE [s |-> [s EXCEPT
                  !.waketime = Add32(s.waketime, mv[m].interval),
                  !.add = mv[m].add,
                  !.interval = Add32(mv[m].interval, SignExt32(mv[m].add)),
                  !.count = mv[m].count,
                  !.flags = BitOr(s.flags, mv[m].flags),
                  !.first = mv[m].next],
          mv |-> move_free(mv, m),
          ret |-> RET_RESCHEDULE,
          m |-> m]

\* Mutant: the current direction is taken from the next-direction flag at the
\* time of the load, not from the descriptor.
virtual_stepper_load_next_nextdir(s, mv) ==
    LET m == s.first IN
    IF m = NULL
    THEN [s |-> [s EXCEPT !.count = 0], mv |-> mv, ret |-> RET_DONE, m |-> NULL]
    ELSE [s |-> [s EXCEPT
                  !.waketime = Add32(s.waketime, mv[m].interval),
                  !.add = mv[m].add,
                  !.interval = Add32(mv[m].interval, SignExt32(mv[m].add)),
                  !.count = mv[m].count,
                  !.flags = BitOr(ClearBit(s.flags, SFLAG_CURRENT_DIR),
                                  IF HasBit(s.flags, SFLAG_NEXT_DIR)
                                  THEN SFLAG_CURRENT_DIR ELSE 0),
                  !.first = mv[m].next],
          mv |-> move_free(mv, m),
          ret |-> RET_RESCHEDULE,
          m |-> m]

\* Mutant: the stepper's interval is the descriptor's, without the add.
virtual_stepper_load_next_noadd(s, mv) ==
    LET m == s.first IN
    IF m = NULL
    THEN [s |-> [s EXCEPT !.count = 0], mv |-> mv, ret |-> RET_DONE, m |-> NULL]
    ELSE [s |-> [s EXCEPT
                  !.waketime = Add32(s.waketime, mv[m].interval),
                  !.add = mv[m].add,
                  !.interval = mv[m].interval,
                  !.count = mv[m].count,
                  !.flags = BitOr(ClearBit(s.flags, SFLAG_CURRENT_DIR), mv[m].flags),
                  !.first = mv[m].next],
          mv |-> move_free(mv, m),
          ret |-> RET_RESCHEDULE,
          m |-> m]

\* Mutant: the descriptor loaded is not given back to the pool.
virtual_stepper_load_next_nofree(s, mv) ==
    LET m == s.first IN
    IF m = NULL
    THEN [s |-> [s EXCEPT !.count = 0], mv |-> mv, ret |-> RET_DONE, m |-> NULL]
    ELSE [s |-> [s EXCEPT
                  !.waketime = Add32(s.waketime, mv[m].interval),
                  !.add = mv[m].add,
                  !.interval = Add32(mv[m].interval, SignExt32(mv[m].add)),
                  !.count = mv[m].count,
                  !.flags = BitOr(ClearBit(s.flags, SFLAG_CURRENT_DIR), mv[m].flags),
                  !.first = mv[m].next],
          mv |-> mv,
          ret |-> RET_RESCHEDULE,
          m |-> m]

\* Mutant: an empty queue resets wake_time with count.
virtual_stepper_load_next_zeroclock(s, mv) ==
    LET m == s.first IN
    IF m = NULL
    THEN [s |-> [s EXCEPT !.count = 0, !.waketime = Zero32],
          mv |-> mv, ret |-> RET_DONE, m |-> NULL]
    ELSE [s |-> [s EXCEPT
                  !.waketime = Add32(s.waketime, mv[m].interval),
                  !.add = mv[m].add,
                  !.interval = Add32(mv[m].interval, SignExt32(mv[m].add)),
                  !.count = mv[m].count,
                  !.flags = BitOr(ClearBit(s.flags, SFLAG_CURRENT_DIR), mv[m].flags),
                  !.first = mv[m].next],
          mv |-> move_free(mv, m),
          ret |-> RET_RESCHEDULE,
          m |-> m]

\* virtual_stepper_load_next: result [s, mv, ret, m], m the descriptor loaded.
virtual_stepper_load_next(s, mv) ==
    LET m == s.first IN
    IF m = NULL
    THEN [s |-> [s EXCEPT !.count = 0], mv |-> mv, ret |-> RET_DONE, m |-> NULL]
    ELSE [s |-> [s EXCEPT
                  !.waketime = Add32(s.waketime, mv[m].interval),
                  !.add = mv[m].add,
                  !.interval = Add32(mv[m].interval, SignExt32(mv[m].add)),
                  !.count = mv[m].count,
                  !.flags = BitOr(ClearBit(s.flags, SFLAG_CURRENT_DIR), mv[m].flags),
                  !.first = mv[m].next],
          mv |-> move_free(mv, m),
          ret |-> RET_RESCHEDULE,
          m |-> m]

\* Mutant: the interval is increased by add before wake_time is advanced.
virtual_stepper_event_rampfirst(s, mv) ==
    LET s1 == [s EXCEPT !.position =
                   IF HasBit(s.flags, SFLAG_CURRENT_DIR)
                   THEN Add32(s.position, One32)
                   ELSE Sub32(s.position, One32)]
        count == Dec16(s.count)
        interval == Add32(s1.interval, SignExt32(s1.add))
    IN  IF count # 0
        THEN [s |-> [s1 EXCEPT
                      !.count = count,
                      !.waketime = Add32(s1.waketime, interval),
                      !.interval = interval],
              mv |-> mv, ret |-> RET_RESCHEDULE, m |-> NULL]
        ELSE virtual_stepper_load_next(s1, mv)

\* Mutant: position does not go below 0.
virtual_stepper_event_nowrap(s, mv) ==
    LET s1 == [s EXCEPT !.position =
                   IF HasBit(s.flags, SFLAG_CURRENT_DIR)
                   THEN Add32(s.position, One32)
                   ELSE IF s.position = Zero32 THEN Zero32
                        ELSE Sub32(s.position, One32)]
        count == Dec16(s.count)
    IN  IF count # 0
        THEN [s |-> [s1 EXCEPT
                      !.count = count,
                      !.waketime = Add32(s1.waketime, s1.interval),
                      !.interval = Add32(s1.interval, SignExt32(s1.add))],
              mv |-> mv, ret |-> RET_RESCHEDULE, m |-> NULL]
        ELSE virtual_stepper_load_next(s1, mv)

\* virtual_stepper_event: the timer callback.
virtual_stepper_event(s, mv) ==
    LET s1 == [s EXCEPT !.position =
                   IF HasBit(s.flags, SFLAG_CURRENT_DIR)
                   THEN Add32(s.position, One32)
                   ELSE Sub32(s.position, One32)]
        count == Dec16(s.count)
    IN  IF count # 0
        THEN [s |-> [s1 EXCEPT
                      !.count = count,
                      !.waketime = Add32(s1.waketime, s1.interval),
                      !.interval = Add32(s1.interval, SignExt32(s1.add))],
              mv |-> mv, ret |-> RET_RESCHEDULE, m |-> NULL]
        ELSE virtual_stepper_load_next(s1, mv)

\* Mutant: only the head of the queue is freed.
FreeQueue_head(s, mv, fuel) ==
    IF s.first = NULL \/ fuel = 0 THEN [s |-> s, mv |-> mv]
    ELSE [s |-> [s EXCEPT !.first = mv[s.first].next],
          mv |-> move_free(mv, s.first)]

\* The loop of virtual_stepper_stop that frees the queue.
RECURSIVE FreeQueue(_, _, _)
FreeQueue(s, mv, fuel) ==
    IF s.first = NULL \/ fuel = 0 THEN [s |-> s, mv |-> mv]
    ELSE FreeQueue([s EXCEPT !.first = mv[s.first].next],
                   move_free(mv, s.first), fuel - 1)

\* Mutant: the timer is left in the scheduler's list.
virtual_stepper_stop_armed(s, mv) ==
    LET s1 == [s EXCEPT !.waketime = Zero32, !.count = 0, !.flags = 0]
    IN  FreeQueue(s1, mv, PoolSize)

\* Mutant: position is zeroed with the other fields.
virtual_stepper_stop_zeropos(s, mv) ==
    LET s1 == [sched_del_timer(s) EXCEPT
                  !.waketime = Zero32, !.count = 0, !.flags = 0,
                  !.position = Zero32]
    IN  FreeQueue(s1, mv, PoolSize)

\* Mutant: only the current-direction bit is cleared.
virtual_stepper_stop_keepnext(s, mv) ==
    LET s1 == [sched_del_timer(s) EXCEPT
                  !.waketime = Zero32, !.count = 0,
                  !.flags = ClearBit(s.flags, SFLAG_CURRENT_DIR)]
    IN  FreeQueue(s1, mv, PoolSize)

\* virtual_stepper_stop
virtual_stepper_stop(s, mv) ==
    LET s1 == [sched_del_timer(s) EXCEPT
                  !.waketime = Zero32, !.count = 0, !.flags = 0]
    IN  FreeQueue(s1, mv, PoolSize)

\* Mutant: an active stepper gets the new descriptor at the head of its queue.
queue_step_critical_lifo(s, mv, m) ==
    LET flags == s.flags
        mv1 == [mv EXCEPT ![m].flags =
                   IF HasBit(flags, SFLAG_NEXT_DIR) THEN MF_DIR ELSE 0]
    IN  IF s.count # 0
        THEN [s |-> [s EXCEPT !.first = m, !.plast = m],
              mv |-> [mv1 EXCEPT ![m].next = s.first], m |-> NULL]
        ELSE LET r == virtual_stepper_load_next([s EXCEPT !.first = m], mv1)
             IN  [s |-> sched_add_timer(r.s), mv |-> r.mv, m |-> r.m]

\* Mutant: the descriptor keeps the direction bit 0 it was filled with.
queue_step_critical_nodir(s, mv, m) ==
    IF s.count # 0
    THEN LET mv2 == IF s.first # NULL
                    THEN [mv EXCEPT ![s.plast].next = m]
                    ELSE mv
             s2 == IF s.first # NULL THEN s ELSE [s EXCEPT !.first = m]
         IN  [s |-> [s2 EXCEPT !.plast = m], mv |-> mv2, m |-> NULL]
    ELSE LET r == virtual_stepper_load_next([s EXCEPT !.first = m], mv)
         IN  [s |-> sched_add_timer(r.s), mv |-> r.mv, m |-> r.m]

\* Mutant: on an active stepper the descriptor is always linked through the
\* tail pointer, also when the queue is empty.
queue_step_critical_through(s, mv, m) ==
    LET flags == s.flags
        mv1 == [mv EXCEPT ![m].flags =
                   IF HasBit(flags, SFLAG_NEXT_DIR) THEN MF_DIR ELSE 0]
    IN  IF s.count # 0
        THEN [s |-> [s EXCEPT !.plast = m],
              mv |-> IF s.plast \in Slots
                     THEN [mv1 EXCEPT ![s.plast].next = m] ELSE mv1,
              m |-> NULL]
        ELSE LET r == virtual_stepper_load_next([s EXCEPT !.first = m], mv1)
             IN  [s |-> sched_add_timer(r.s), mv |-> r.mv, m |-> r.m]

\* Mutant: the next direction is taken as the current direction at once.
queue_step_critical_curdir(s, mv, m) ==
    LET flags == s.flags
        mv1 == [mv EXCEPT ![m].flags =
                   IF HasBit(flags, SFLAG_NEXT_DIR) THEN MF_DIR ELSE 0]
        s1 == [s EXCEPT !.flags =
                  BitOr(ClearBit(flags, SFLAG_CURRENT_DIR), mv1[m].flags)]
    IN  IF s.count # 0
        THEN LET mv2 == IF s.first # NULL
                        THEN [mv1 EXCEPT ![s.plast].next = m]
                        ELSE mv1
                 s2 == IF s.first # NULL THEN s1 ELSE [s1 EXCEPT !.first = m]
             IN  [s |-> [s2 EXCEPT !.plast = m], mv |-> mv2, m |-> NULL]
        ELSE LET r == virtual_stepper_load_next([s EXCEPT !.first = m], mv1)
             IN  [s |-> sched_add_timer(r.s), mv |-> r.mv, m |-> r.m]

\* The critical section of command_virtual_queue_step (irq_disable ..
\* irq_enable) for the filled descriptor m: result [s, mv, m], m the
\* descriptor virtual_stepper_load_next loaded, if it ran.
queue_step_critical(s, mv, m) ==
    LET flags == s.flags
        mv1 == [mv EXCEPT ![m].flags =
                   IF HasBit(flags, SFLAG_NEXT_DIR) THEN MF_DIR ELSE 0]
    IN  IF s.count # 0
        THEN LET mv2 == IF s.first # NULL
                        THEN [mv1 EXCEPT ![s.plast].next = m]
                        ELSE mv1
                 s2 == IF s.first # NULL THEN s ELSE [s EXCEPT !.first = m]
             IN  [s |-> [s2 EXCEPT !.plast = m], mv |-> mv2, m |-> NULL]
        ELSE LET r == virtual_stepper_load_next([s EXCEPT !.first = m], mv1)
             IN  [s |-> sched_add_timer(r.s), mv |-> r.mv, m |-> r.m]

\* Mutant: the request sets the current-direction bit as well.
set_next_step_dir_both(s, dir) ==
    [s EXCEPT !.flags =
        IF dir # 0 THEN BitOr(SFLAG_NEXT_DIR, SFLAG_CURRENT_DIR) ELSE 0]

\* The critical section of command_virtual_set_next_step_dir.
set_next_step_dir(s, dir) ==
    LET nextdir == IF dir # 0 THEN SFLAG_NEXT_DIR ELSE 0
    IN  [s EXCEPT !.flags = BitOr(ClearBit(s.flags, SFLAG_NEXT_DIR), nextdir)]

\* Mutant: the clock is added to wake_time.
reset_step_clock_add(s, waketime) ==
    [s EXCEPT !.waketime = Add32(s.waketime, waketime)]

\* command_virtual_reset_step_clock on an idle stepper.
reset_step_clock(s, waketime) == [s EXCEPT !.waketime = waketime]

virtual_stepper_get_position(s) == s.position

virtual_stepper_set_position(s, position) == [s EXCEPT !.position = position]

\* Mutant: the queues are dropped and the steppers are not stopped.
virtual_stepper_shutdown_nostop(st, mv, cfg) ==
    [o \in Oids |-> IF o \in cfg THEN [st[o] EXCEPT !.first = NULL] ELSE st[o]]

\* Mutant: only the first configured stepper is stopped.
virtual_stepper_shutdown_first(st, mv, cfg) ==
    [o \in Oids |->
        IF o \in cfg /\ \A p \in cfg : o <= p
        THEN virtual_stepper_stop([st[o] EXCEPT !.first = NULL], mv).s
        ELSE st[o]]

\* virtual_stepper_shutdown: every configured stepper drops its queue and stops.
virtual_stepper_shutdown(st, mv, cfg) ==
    [o \in Oids |->
        IF o \in cfg
        THEN virtual_stepper_stop([st[o] EXCEPT !.first = NULL], mv).s
        ELSE st[o]]

(* ------------------------------------------------------------------ state *)

VARIABLES
    stepper,      \* oid -> struct virtual_stepper
    moves,        \* the move pool: slot -> struct virtual_stepper_move
    configured,   \* the oids config_virtual_stepper has allocated
    task,         \* the command handler in progress in task context
    nreq,         \* requests issued so far
    enq,          \* per stepper: the moves accepted since its last flush
    loaded,       \* per stepper: the moves loaded since its last flush
    last          \* the last operation and the state it found

vars == <<stepper, moves, configured, task, nreq, enq, loaded, last>>

NoArgs == [interval |-> Zero32, count |-> Zero32, add |-> Zero32]

\* `active` keeps, for the properties, whether the handler in progress found
\* the stepper active when it started.
TaskIdle ==
    [pc |-> "idle", oid |-> 0, m |-> NULL, args |-> NoArgs, active |-> FALSE]

\* What `last` keeps of an operation on stepper o: its name, whether it found
\* the stepper active, how many moves it found queued, the next-direction
\* flag it found, and how many of the configured steppers it found active.
Op(name, o) ==
    [op |-> name, oid |-> o, active |-> stepper[o].count # 0,
     qlen |-> Len(Queue(stepper[o], moves)),
     nd |-> IF HasBit(stepper[o].flags, SFLAG_NEXT_DIR) THEN 1 ELSE 0,
     nactive |-> Cardinality({p \in configured : stepper[p].count # 0})]

\* Operations that `last` does not tell apart.
Other ==
    [op |-> "other", oid |-> 0, active |-> FALSE, qlen |-> 0, nd |-> 0,
     nactive |-> 0]

Init ==
    /\ stepper = [o \in Oids |-> ZeroStepper]
    /\ moves = [i \in Slots |-> FreeMove]
    /\ configured = {}
    /\ task = TaskIdle
    /\ nreq = 0
    /\ enq = [o \in Oids |-> <<>>]
    /\ loaded = [o \in Oids |-> <<>>]
    /\ last = Other

(* ----------------------------------------------------------------- inputs *)

\* The arguments of a queue_step request: args[1..3], each a uint32_t.
Request(interval, count, add) ==
    [interval |-> interval, count |-> count, add |-> add]

\* (1000, 2, +100), and (2^32 - 500, 3, -1) with add sent as 0xffffffff.
ValidRequests ==
    { Request(U32(0, 1000), U32(0, 2), U32(0, 100)),
      Request(U32(M16 - 1, M16 - 500), U32(0, 3), U32(M16 - 1, M16 - 1)) }

\* count is 0 as a uint16_t: 0 itself, and 65536.
ZeroCountRequests ==
    { Request(U32(0, 500), U32(0, 0), U32(0, 0)),
      Request(U32(0, 500), U32(1, 0), U32(0, 0)) }

Requests == ValidRequests \cup ZeroCountRequests

\* (1000, 2, +100) and (500, 0, 0).
ShortRequests ==
    { Request(U32(0, 1000), U32(0, 2), U32(0, 100)),
      Request(U32(0, 500), U32(0, 0), U32(0, 0)) }

Dirs == {0, 1}

Clocks == {U32(M16 - 1, M16 - 1000)}

Positions == {U32(M16 - 1, M16 - 1)}

(* ----------------------------------------------------------- bookkeeping *)

NextDir(s) == IF HasBit(s.flags, SFLAG_NEXT_DIR) THEN 1 ELSE 0

CurDir(s) == IF HasBit(s.flags, SFLAG_CURRENT_DIR) THEN 1 ELSE 0

\* A move accepted by queue_step: the request's interval, its count as a
\* uint16_t and its add as an int16_t, and the next-direction flag that the
\* critical section found.
Accepted(s, mv, m, args) ==
    [id |-> mv[m].seq, interval |-> args.interval, count |-> ToU16(args.count),
     add |-> ToI16(args.add), dir |-> NextDir(s)]

\* A move virtual_stepper_load_next loaded: s and mv are the stepper and the
\* pool before the load, s2 and mv2 after it, and by is "timer" or
\* "queue_step", whichever ran the load.  w0 is wake_time before the load,
\* nd the next-direction flag at the load, left the moves still queued after
\* it; n counts the timer events of the move so far, up and down those that
\* raised and lowered position; redir is 1 once set_next_step_dir has changed
\* the next direction while the move was active, and 2 once a step of the move
\* has fired after that; rc is whether reset_step_clock has run since the
\* move was loaded.
Loaded(by, s, mv, m, s2, mv2) ==
    [id |-> mv[m].seq, by |-> by, n |-> 0, up |-> 0, down |-> 0,
     w0 |-> s.waketime, nd |-> NextDir(s), left |-> Len(Queue(s2, mv2)),
     redir |-> 0, rc |-> FALSE]

NoteLoad(log, by, s, mv, m, s2, mv2) ==
    IF m = NULL THEN log ELSE Append(log, Loaded(by, s, mv, m, s2, mv2))

\* A step with no move loaded since the flush is noted under id 0.
NoStep ==
    [id |-> 0, by |-> "none", n |-> 0, up |-> 0, down |-> 0, w0 |-> Zero32,
     nd |-> 0, left |-> 0, redir |-> 0, rc |-> FALSE]

NoteStep(log0, before, after) ==
    LET log == IF log0 = <<>> THEN <<NoStep>> ELSE log0
    IN  [log EXCEPT ![Len(log)] =
           [@ EXCEPT !.n = @ + 1,
                     !.redir = IF @ = 1 THEN 2 ELSE @,
                     !.up = IF after = Add32(before, One32) THEN @ + 1 ELSE @,
                     !.down = IF after = Sub32(before, One32) THEN @ + 1 ELSE @]]

NoteRedir(log, s, s2) ==
    IF log = <<>> \/ s.count = 0
       \/ HasBit(s.flags, SFLAG_NEXT_DIR) = HasBit(s2.flags, SFLAG_NEXT_DIR)
    THEN log
    ELSE [log EXCEPT ![Len(log)] = [@ EXCEPT !.redir = IF @ = 0 THEN 1 ELSE @]]

NoteReset(log) ==
    IF log = <<>> THEN log ELSE [log EXCEPT ![Len(log)] = [@ EXCEPT !.rc = TRUE]]

(* ---------------------------------------------------------------- actions *)

\* shutdown(msg), raised on behalf of stepper o: the fault runs the shutdown
\* handlers and abandons the command handler in progress.  mv is the pool at
\* the time of the fault; `last` keeps the message.
Fault(mv, msg, o) ==
    /\ last' = Op(msg, o)
    /\ stepper' = virtual_stepper_shutdown(stepper, mv, configured)
    /\ moves' = mv
    /\ task' = TaskIdle
    /\ enq' = [p \in Oids |-> <<>>]
    /\ loaded' = [p \in Oids |-> <<>>]

\* The timer primitive runs the callback of an armed timer and keeps the
\* timer armed exactly when the callback returns SF_RESCHEDULE.
timer_dispatch(s, mv) ==
    LET r == virtual_stepper_event(s, mv)
    IN  [r EXCEPT !.s = [r.s EXCEPT !.armed = (r.ret = RET_RESCHEDULE)]]

\* command_config_virtual_stepper
Config(o) ==
    /\ task.pc = "idle"
    /\ o \notin configured
    /\ configured' = configured \cup {o}
    /\ stepper' = [stepper EXCEPT ![o] = ZeroStepper]
    /\ last' = Other
    /\ UNCHANGED <<moves, task, nreq, enq, loaded>>

\* command_virtual_queue_step up to irq_disable(): the descriptor is
\* allocated and filled, and a zero count raises the fault.
QueueStepBegin(o, args) ==
    /\ task.pc = "idle"
    /\ o \in configured
    /\ nreq < MaxReq
    /\ FreeSlots(moves) # {}
    /\ nreq' = nreq + 1
    /\ LET m == move_alloc(moves)
           mv1 == [moves EXCEPT ![m] =
                     [FreeMove EXCEPT !.alloc = TRUE, !.seq = nreq + 1,
                                      !.interval = args.interval,
                                      !.count = ToU16(args.count)]]
           mv2 == [mv1 EXCEPT ![m].add = ToI16(args.add),
                              ![m].next = NULL,
                              ![m].flags = 0]
       IN  IF mv1[m].count = 0
           THEN Fault(mv1, "Invalid count parameter", o)
           ELSE /\ moves' = mv2
                /\ task' = [pc |-> "queue_step", oid |-> o, m |-> m,
                            args |-> args, active |-> stepper[o].count # 0]
                /\ last' = Other
                /\ UNCHANGED <<stepper, enq, loaded>>
    /\ UNCHANGED <<configured>>

\* Mutant: the test of count is made before irq_disable(), when the handler
\* starts, and the critical section acts on what that test found.
QueueStepCritical_early ==
    /\ task.pc = "queue_step"
    /\ LET o == task.oid
           s == stepper[o]
           m == task.m
           mv1 == [moves EXCEPT ![m].flags =
                      IF HasBit(s.flags, SFLAG_NEXT_DIR) THEN MF_DIR ELSE 0]
           r == IF task.active
                THEN [s |-> [(IF s.first # NULL THEN s
                              ELSE [s EXCEPT !.first = m]) EXCEPT !.plast = m],
                      mv |-> IF s.first # NULL
                             THEN [mv1 EXCEPT ![s.plast].next = m]
                             ELSE mv1,
                      m |-> NULL]
                ELSE LET l == virtual_stepper_load_next(
                                  [s EXCEPT !.first = m], mv1)
                     IN  [s |-> sched_add_timer(l.s), mv |-> l.mv, m |-> l.m]
       IN  /\ stepper' = [stepper EXCEPT ![o] = r.s]
           /\ moves' = r.mv
           /\ enq' = [enq EXCEPT ![o] =
                        Append(@, Accepted(stepper[o], moves, task.m, task.args))]
           /\ loaded' = [loaded EXCEPT ![o] =
                           NoteLoad(@, "queue_step", stepper[o], moves, r.m, r.s, r.mv)]
           /\ last' = Other
    /\ task' = TaskIdle
    /\ UNCHANGED <<configured, nreq>>

\* command_virtual_queue_step from irq_disable() to irq_enable().
QueueStepCritical ==
    /\ task.pc = "queue_step"
    /\ LET o == task.oid
           r == queue_step_critical(stepper[o], moves, task.m)
       IN  /\ stepper' = [stepper EXCEPT ![o] = r.s]
           /\ moves' = r.mv
           /\ enq' = [enq EXCEPT ![o] =
                        Append(@, Accepted(stepper[o], moves, task.m, task.args))]
           /\ loaded' = [loaded EXCEPT ![o] =
                           NoteLoad(@, "queue_step", stepper[o], moves, r.m, r.s, r.mv)]
           /\ last' = Other
    /\ task' = TaskIdle
    /\ UNCHANGED <<configured, nreq>>

\* command_virtual_set_next_step_dir
SetNextStepDir(o, dir) ==
    /\ task.pc = "idle"
    /\ o \in configured
    /\ nreq < MaxReq
    /\ nreq' = nreq + 1
    /\ LET s2 == set_next_step_dir(stepper[o], dir)
       IN  /\ stepper' = [stepper EXCEPT ![o] = s2]
           /\ loaded' = [loaded EXCEPT ![o] = NoteRedir(@, stepper[o], s2)]
    /\ last' = Other
    /\ UNCHANGED <<moves, configured, task, enq>>

\* command_virtual_reset_step_clock
ResetStepClock(o, waketime) ==
    /\ task.pc = "idle"
    /\ o \in configured
    /\ nreq < MaxReq
    /\ nreq' = nreq + 1
    /\ IF stepper[o].count # 0
       THEN Fault(moves, "Can't reset time when stepper active", o)
       ELSE /\ stepper' = [stepper EXCEPT ![o] = reset_step_clock(@, waketime)]
            /\ loaded' = [loaded EXCEPT ![o] = NoteReset(@)]
            /\ last' = Op("reset_step_clock", o)
            /\ UNCHANGED <<moves, task, enq>>
    /\ UNCHANGED configured

\* command_virtual_stepper_get_position
GetPosition(o) ==
    /\ task.pc = "idle"
    /\ o \in configured
    /\ last' = Other
    /\ UNCHANGED <<stepper, moves, configured, task, nreq, enq, loaded>>

\* virtual_stepper_set_position, called by other modules with irqs off.
SetPosition(o, position) ==
    /\ o \in configured
    /\ nreq < MaxReq
    /\ nreq' = nreq + 1
    /\ stepper' = [stepper EXCEPT ![o] = virtual_stepper_set_position(@, position)]
    /\ last' = Other
    /\ UNCHANGED <<moves, configured, task, enq, loaded>>

\* virtual_stepper_stop, called by other modules with irqs off.
Stop(o) ==
    /\ o \in configured
    /\ nreq < MaxReq
    /\ nreq' = nreq + 1
    /\ LET r == virtual_stepper_stop(stepper[o], moves)
       IN  /\ stepper' = [stepper EXCEPT ![o] = r.s]
           /\ moves' = r.mv
    /\ enq' = [enq EXCEPT ![o] = <<>>]
    /\ loaded' = [loaded EXCEPT ![o] = <<>>]
    /\ last' = Op("stop", o)
    /\ UNCHANGED <<configured, task>>

\* A shutdown raised elsewhere in the firmware.
Shutdown ==
    /\ nreq < MaxReq
    /\ nreq' = nreq + 1
    /\ \E o \in configured : Fault(moves, "shutdown", o)
    /\ UNCHANGED configured

\* The timer of stepper o fires: virtual_stepper_event runs.
TimerEvent(o) ==
    /\ stepper[o].armed
    /\ LET r == timer_dispatch(stepper[o], moves)
       IN  /\ stepper' = [stepper EXCEPT ![o] = r.s]
           /\ moves' = r.mv
           /\ loaded' = [loaded EXCEPT ![o] =
                           NoteLoad(NoteStep(@, stepper[o].position, r.s.position),
                                    "timer", stepper[o], moves, r.m, r.s, r.mv)]
    /\ last' = Other
    /\ UNCHANGED <<configured, task, nreq, enq>>

\* One stepper, every operation.
Next ==
    \/ \E o \in MainOids : Config(o)
    \/ \E o \in MainOids, args \in Requests : QueueStepBegin(o, args)
    \/ QueueStepCritical
    \/ \E o \in MainOids, dir \in Dirs : SetNextStepDir(o, dir)
    \/ \E o \in MainOids, t \in Clocks : ResetStepClock(o, t)
    \/ \E o \in MainOids : GetPosition(o)
    \/ \E o \in MainOids, p \in Positions : SetPosition(o, p)
    \/ \E o \in MainOids : Stop(o)
    \/ Shutdown
    \/ \E o \in MainOids : TimerEvent(o)

Spec == Init /\ [][Next]_vars

\* One stepper, queue_step requests with count > 0 only, no Stop, no shutdown
\* and no set_position; every armed timer eventually fires.
NextMoves ==
    \/ \E o \in MainOids : Config(o)
    \/ \E o \in MainOids, args \in ValidRequests : QueueStepBegin(o, args)
    \/ QueueStepCritical
    \/ \E o \in MainOids, dir \in Dirs : SetNextStepDir(o, dir)
    \/ \E o \in MainOids : GetPosition(o)
    \/ \E o \in MainOids : TimerEvent(o)

MoveSpec ==
    Init /\ [][NextMoves]_vars /\ \A o \in MainOids : WF_vars(TimerEvent(o))

\* Every stepper, with the requests that activate a stepper or raise a fault.
NextAll ==
    \/ \E o \in Oids : Config(o)
    \/ \E o \in Oids, args \in ShortRequests : QueueStepBegin(o, args)
    \/ QueueStepCritical
    \/ \E o \in Oids, t \in Clocks : ResetStepClock(o, t)
    \/ \E o \in Oids : Stop(o)
    \/ Shutdown
    \/ \E o \in Oids : TimerEvent(o)

AllSpec == Init /\ [][NextAll]_vars

(* ------------------------------------------------------------- properties *)

\* Idle, with an empty queue and a disarmed timer.
Quiescent(o) ==
    /\ stepper[o].count = 0
    /\ ~stepper[o].armed
    /\ Queue(stepper[o], moves) = <<>>

\* The request numbers of the queued descriptors, head first.
QueueIds(o) ==
    LET q == Queue(stepper[o], moves)
    IN  [i \in 1..Len(q) |-> moves[q[i]].seq]

Ids(log) == [i \in 1..Len(log) |-> log[i].id]

\* Timer events noted in a log of loaded moves.
RECURSIVE Events(_)
Events(log) == IF log = <<>> THEN 0 ELSE Head(log).n + Events(Tail(log))

\* Steps requested by the accepted moves of direction bit d.
RECURSIVE DirCounts(_, _)
DirCounts(log, d) ==
    IF log = <<>> THEN 0
    ELSE (IF Head(log).dir = d THEN Head(log).count ELSE 0)
         + DirCounts(Tail(log), d)

Counts(log) == DirCounts(log, 0) + DirCounts(log, 1)

C1_Totals ==
    \A o \in MainOids :
        Quiescent(o) =>
            /\ Events(loaded[o]) = Counts(enq[o])
            /\ stepper[o].position =
                   Sub32(FromNat(DirCounts(enq[o], 1)),
                         FromNat(DirCounts(enq[o], 0)))

\* C1: with queue_step requests of count > 0 only (no Stop, no shutdown, no
\* set_position) and every armed timer eventually firing, an active stepper
\* eventually becomes idle with an empty queue and a disarmed timer, and
\* whenever it is so, the timer step events delivered equal the sum of the
\* counts accepted and position (from 0) is the sum of the counts of the moves
\* with the direction bit set minus that of the others, modulo 2^32.
C1_Drains ==
    /\ []C1_Totals
    /\ \A o \in MainOids : (stepper[o].count > 0) ~> Quiescent(o)

\* Three moves of both directions have run to the end, more steps down than up.
C1_Witness ==
    /\ Quiescent(0)
    /\ Len(enq[0]) = 3
    /\ Len(loaded[0]) = 3
    /\ Events(loaded[0]) = Counts(enq[0])
    /\ DirCounts(enq[0], 1) > 0
    /\ DirCounts(enq[0], 0) > DirCounts(enq[0], 1)

\* C2: in every state (each is one with interrupts enabled: the critical
\* sections and the timer callback are single steps), the timer of a stepper
\* is armed if and only if its count is nonzero.
C2_ArmedIffActive ==
    \A o \in Oids : stepper[o].armed <=> stepper[o].count > 0

\* The timer callback has reloaded from the queue and the timer stays armed.
C2_Witness ==
    /\ stepper[0].armed
    /\ stepper[0].count > 0
    /\ Len(loaded[0]) >= 2

\* C3: the moves loaded since the last flush, followed by the moves queued,
\* are the moves accepted since that flush, in the order of their requests;
\* and every move but the last loaded has had all its steps fire.
C3_Fifo ==
    \A o \in Oids :
        /\ Ids(loaded[o]) \o QueueIds(o) = Ids(enq[o])
        /\ \A i \in 1..(Len(loaded[o]) - 1) : loaded[o][i].n = enq[o][i].count

\* The timer callback loaded a move while a later one was waiting behind it.
C3_Witness ==
    \E i \in DOMAIN loaded[0] :
        i >= 2 /\ loaded[0][i].by = "timer" /\ loaded[0][i].left >= 1

\* C4: a set_next_step_dir request on an active stepper leaves the
\* current-direction bit as it was, and the steps of one move all change
\* position in the same direction.
C4_ActiveDirKept ==
    /\ [][\A o \in MainOids :
            (stepper[o].count > 0 /\ \E dir \in Dirs : SetNextStepDir(o, dir))
                => CurDir(stepper'[o]) = CurDir(stepper[o])]_vars
    /\ [](\A o \in Oids : \A i \in DOMAIN loaded[o] :
            loaded[o][i].up = 0 \/ loaded[o][i].down = 0)

\* A step of a move fired after the next direction was changed under it.
C4_Witness ==
    \E i \in DOMAIN loaded[0] : loaded[0][i].redir = 2 /\ loaded[0][i].n >= 2

\* C5: the steps of a move change position in the direction of the
\* next-direction flag that the critical section of its queue_step found:
\* up if it was set, down if it was clear.
C5_DirAtEnqueue ==
    \A o \in Oids : \A i \in DOMAIN loaded[o] :
        /\ i <= Len(enq[o])
        /\ loaded[o][i].n = loaded[o][i].up + loaded[o][i].down
        /\ enq[o][i].dir = 1 => loaded[o][i].down = 0
        /\ enq[o][i].dir = 0 => loaded[o][i].up = 0
        /\ (i = Len(loaded[o]) /\ stepper[o].count > 0)
               => CurDir(stepper[o]) = enq[o][i].dir

\* A move stepped whose next-direction flag had changed between its request
\* and its load.
C5_Witness ==
    \E i \in DOMAIN loaded[0] :
        /\ loaded[0][i].nd # enq[0][i].dir
        /\ loaded[0][i].n >= 1

\* What virtual_stepper_stop leaves of a stepper whose queue is dropped or
\* freed: interval, add, position and plast stay.
Stopped(s) ==
    [s EXCEPT !.armed = FALSE, !.waketime = Zero32, !.count = 0, !.flags = 0,
              !.first = NULL]

\* C6: from any state, Stop leaves the stepper with its timer disarmed, count,
\* wake_time and flags 0 and an empty queue, and a second Stop right after it
\* changes nothing, in the stepper or in the pool.
C6_StopIdempotent ==
    /\ [](\A o \in Oids :
            LET a == virtual_stepper_stop(stepper[o], moves)
                b == virtual_stepper_stop(a.s, a.mv)
            IN  /\ a.s = Stopped(stepper[o])
                /\ Queue(a.s, a.mv) = <<>>
                /\ b = a)
    /\ [][\A o \in MainOids :
            (Stop(o) /\ last.op = "stop" /\ last.oid = o)
                => /\ stepper' = stepper
                   /\ moves' = moves
                   /\ Quiescent(o)']_vars

\* Stop has just run on an active stepper with a move queued.
C6_Witness ==
    /\ last.op = "stop"
    /\ last.active
    /\ last.qlen >= 1
    /\ Quiescent(last.oid)
    /\ \A i \in Slots : ~moves[i].alloc

SameMoveState(s, s2) ==
    /\ s2.interval = s.interval
    /\ s2.add = s.add
    /\ s2.count = s.count
    /\ s2.waketime = s.waketime
    /\ s2.flags = s.flags

\* C7 as stated: a queue_step request with count == 0 raises the fault and
\* leaves the queue and interval, add, count, wake_time and flags as they were.
C7_Original ==
    [][\A o \in MainOids : \A args \in ZeroCountRequests :
          QueueStepBegin(o, args)
              => /\ last'.op = "Invalid count parameter"
                 /\ SameMoveState(stepper[o], stepper'[o])
                 /\ Queue(stepper'[o], moves') = Queue(stepper[o], moves)]_vars

\* C7, amended: a queue_step request whose count is 0 as a uint16_t always
\* raises the fault; the shutdown it causes abandons the handler and stops the
\* stepper: interval, add and position stay, and count, wake_time and flags
\* become 0, the queue empty and the timer disarmed.
C7_ZeroCountFaults ==
    [][\A o \in MainOids : \A args \in ZeroCountRequests :
          QueueStepBegin(o, args)
              => /\ last'.op = "Invalid count parameter"
                 /\ task' = TaskIdle
                 /\ stepper'[o] = Stopped(stepper[o])
                 /\ Quiescent(o)']_vars

\* The fault was raised on an active stepper with a move queued.
C7_Witness ==
    /\ last.op = "Invalid count parameter"
    /\ last.active
    /\ last.qlen >= 1
    /\ Quiescent(last.oid)

\* C8 as stated: reset_step_clock on an idle stepper sets wake_time and nothing
\* else; on an active stepper it raises the fault and changes nothing.
C8_Original ==
    [][\A o \in MainOids : \A t \in Clocks :
          ResetStepClock(o, t)
              => IF stepper[o].count = 0
                 THEN /\ last'.op = "reset_step_clock"
                      /\ stepper' = [stepper EXCEPT ![o].waketime = t]
                      /\ moves' = moves
                 ELSE /\ last'.op = "Can't reset time when stepper active"
                      /\ stepper' = stepper
                      /\ moves' = moves]_vars

\* C8, amended: reset_step_clock on an idle stepper sets wake_time and nothing
\* else; on an active stepper it always raises the fault and does not set
\* wake_time to the clock; the shutdown the fault causes stops the stepper:
\* interval, add and position stay, and count, wake_time and flags become 0,
\* the queue empty and the timer disarmed.
C8_ResetClock ==
    [][\A o \in MainOids : \A t \in Clocks :
          ResetStepClock(o, t)
              => IF stepper[o].count = 0
                 THEN /\ last'.op = "reset_step_clock"
                      /\ stepper' = [stepper EXCEPT ![o].waketime = t]
                      /\ moves' = moves
                 ELSE /\ last'.op = "Can't reset time when stepper active"
                      /\ stepper'[o] = Stopped(stepper[o])
                      /\ Quiescent(o)'
                      /\ stepper'[o].waketime # t]_vars

\* The fault was raised by reset_step_clock on an active stepper with a move
\* queued.
C8_Witness ==
    /\ last.op = "Can't reset time when stepper active"
    /\ last.active
    /\ last.qlen >= 1
    /\ Quiescent(last.oid)

ShutdownMessages ==
    {"shutdown", "Invalid count parameter",
     "Can't reset time when stepper active"}

\* C9: right after a shutdown, raised directly or by a fault of a handler,
\* every configured stepper is idle with an empty queue and a disarmed timer;
\* and as long as no move has been accepted since, a stepper stays so and no
\* timer event of it fires.
C9_ShutdownStopsAll ==
    /\ last.op \in ShutdownMessages => \A o \in configured : Quiescent(o)
    /\ \A o \in Oids : enq[o] = <<>> => Quiescent(o) /\ loaded[o] = <<>>

\* The shutdown found both steppers active.
C9_Witness ==
    /\ last.op \in ShutdownMessages
    /\ last.nactive = 2
    /\ configured = Oids

\* W + k*I + A*k*(k-1)/2 modulo 2^32, A sign-extended.
StepTime(w, interval, add, k) ==
    Add32(w, Add32(Mul32(k, interval),
                   Mul32((k * (k - 1)) \div 2, SignExt32(add))))

\* C10: while a move (I, N, A) loaded at wake_time W is active with n steps
\* fired, wake_time is W + k*I + A*k*(k-1)/2 modulo 2^32 for k = n + 1; and
\* the move the timer callback loaded after it was loaded at the time of its
\* last step, W + N*I + A*N*(N-1)/2, so that the first step of that move is
\* due its own interval later.
C10_StepTimes ==
    \A o \in Oids : \A i \in DOMAIN loaded[o] :
        /\ i <= Len(enq[o])
        /\ (i = Len(loaded[o]) /\ stepper[o].count > 0)
               => stepper[o].waketime =
                      StepTime(loaded[o][i].w0, enq[o][i].interval,
                               enq[o][i].add, loaded[o][i].n + 1)
        /\ (i < Len(loaded[o]) /\ loaded[o][i + 1].by = "timer")
               => loaded[o][i + 1].w0 =
                      StepTime(loaded[o][i].w0, enq[o][i].interval,
                               enq[o][i].add, enq[o][i].count)

\* The third step of a move with a negative add is due, the move having been
\* loaded by the timer callback after a move with a positive add.
C10_Witness ==
    /\ Len(loaded[0]) = 2
    /\ stepper[0].count > 0
    /\ loaded[0][2].by = "timer"
    /\ loaded[0][2].n = 2
    /\ enq[0][2].add < 0
    /\ enq[0][1].add > 0
    /\ loaded[0][2].w0 # Zero32

\* The configured stepper whose move the step just loaded, if it loaded one.
JustLoaded(o) == Len(loaded'[o]) = Len(loaded[o]) + 1

\* C11 as stated: the move that is active with no set_next_step_dir since its
\* load has its current-direction bit equal to the next-direction flag, that
\* is to the dir of the last set_next_step_dir before the load, also when the
\* move was queued before that request.
C11_Original ==
    \A o \in MainOids :
        (stepper[o].count > 0 /\ loaded[o] # <<>>
         /\ loaded[o][Len(loaded[o])].redir = 0)
            => CurDir(stepper[o]) = loaded[o][Len(loaded[o])].nd

\* C11, amended: a set_next_step_dir(dir) request sets the next-direction flag
\* to dir, and no queue_step or timer event changes that flag; the flag takes
\* effect on the next move that queue_step accepts, which gets the flag of
\* that moment as its direction bit; and a move that is loaded, by queue_step
\* or by the timer callback, gets as current direction the bit it was
\* accepted with, so that a move already queued at the time of the request
\* keeps the direction it had.
C11_DirOfNextEnqueued ==
    [][\A o \in MainOids :
          /\ \A dir \in Dirs :
                 SetNextStepDir(o, dir)
                     => /\ NextDir(stepper'[o]) = dir
                        /\ \A i \in Slots : moves'[i].flags = moves[i].flags
          /\ (QueueStepCritical \/ TimerEvent(o))
                 => NextDir(stepper'[o]) = NextDir(stepper[o])
          /\ (QueueStepCritical /\ stepper[o].count > 0)
                 => moves'[task.m].flags =
                        (IF NextDir(stepper[o]) = 1 THEN MF_DIR ELSE 0)
          /\ (QueueStepCritical /\ stepper[o].count = 0)
                 => CurDir(stepper'[o]) = NextDir(stepper[o])
          /\ (TimerEvent(o) /\ JustLoaded(o))
                 => /\ CurDir(stepper'[o]) =
                           (IF moves[stepper[o].first].flags = MF_DIR
                            THEN 1 ELSE 0)
                    /\ CurDir(stepper'[o]) = enq[o][Len(loaded'[o])].dir]_vars

\* The timer callback loaded a move that had been queued before the next
\* direction was changed: the move is active in the direction it was accepted
\* with, which is not that of the next-direction flag.
C11_Witness ==
    /\ stepper[0].count > 0
    /\ Len(loaded[0]) >= 2
    /\ loaded[0][Len(loaded[0])].by = "timer"
    /\ loaded[0][Len(loaded[0])].redir = 0
    /\ loaded[0][Len(loaded[0])].nd # enq[0][Len(loaded[0])].dir
    /\ CurDir(stepper[0]) = enq[0][Len(loaded[0])].dir
    /\ CurDir(stepper[0]) # NextDir(stepper[0])

\* The descriptors taken from the pool and not given back.
Outstanding == {i \in Slots : moves[i].alloc}

\* The descriptors in the queue of stepper o.
Queued(o) ==
    LET q == Queue(stepper[o], moves) IN {q[i] : i \in DOMAIN q}

QueuedAll == UNION {Queued(o) : o \in Oids}

\* The descriptor that the handler in progress holds.
Held == IF task.pc = "queue_step" THEN {task.m} ELSE {}

\* The descriptors outstanding that no queue and no handler holds.
Dropped == Outstanding \ (QueuedAll \cup Held)

\* The descriptors that the step gives back to the pool.
Released == {i \in Slots : moves[i].alloc /\ ~moves'[i].alloc}

\* C12 as stated: whenever no handler is in progress, the descriptors
\* outstanding from the pool are as many as the queue of the stepper is long.
C12_Original ==
    task.pc = "idle" =>
        Cardinality(Outstanding) = Len(Queue(stepper[0], moves))

\* C12, amended: the descriptors in a queue are allocated and each is in the
\* queue once, and the handler in progress holds an allocated descriptor that
\* is in no queue; a descriptor is given back to the pool exactly when it is
\* loaded (by the timer callback or by queue_step on an idle stepper) or when
\* Stop flushes the queue it is in; a shutdown, raised directly or by the fault
\* of a handler, drops the queues and the descriptor of the handler in
\* progress without giving them back, and nothing else makes a descriptor
\* outstanding that no queue and no handler holds.
C12_PoolRelease ==
    /\ [](/\ QueuedAll \cup Held \subseteq Outstanding
          /\ QueuedAll \cap Held = {}
          /\ \A o \in Oids :
                 Cardinality(Queued(o)) = Len(Queue(stepper[o], moves)))
    /\ [][/\ \A o \in MainOids :
                /\ Stop(o) => Released = Queued(o)
                /\ TimerEvent(o) =>
                       Released = (IF JustLoaded(o) THEN {stepper[o].first}
                                   ELSE {})
          /\ QueueStepCritical =>
                 Released = (IF stepper[task.oid].count = 0 THEN {task.m}
                             ELSE {})
          /\ Released # {} =>
                 \/ QueueStepCritical
                 \/ \E o \in MainOids : Stop(o) \/ TimerEvent(o)
          /\ last'.op \in ShutdownMessages =>
                 /\ Released = {}
                 /\ Dropped \cup QueuedAll \cup Held \subseteq Dropped'
                 /\ Cardinality(Dropped') <=
                        Cardinality(Dropped \cup QueuedAll \cup Held) + 1
                 /\ last'.op = "Invalid count parameter"
                        <=> Cardinality(Dropped') =
                            Cardinality(Dropped \cup QueuedAll \cup Held) + 1
          /\ last'.op \notin ShutdownMessages => Dropped' = Dropped]_vars

\* A shutdown has dropped a queue of two descriptors: they are outstanding
\* and in no queue.
C12_Witness ==
    /\ last.op \in ShutdownMessages
    /\ last.qlen >= 2
    /\ task.pc = "idle"
    /\ QueuedAll = {}
    /\ Cardinality(Dropped) >= 2

\* C13: the timer callback runs between any two steps of a handler but not
\* inside its critical section, and in every state (each is one with
\* interrupts enabled) a stepper whose count is 0 has an empty queue; the
\* critical section of queue_step leaves the stepper active with its timer
\* armed and the move it accepted either loaded or last in the queue, also
\* when the last step of the active move fired after the handler had started.
C13_NoStrandedMove ==
    /\ [](\A o \in Oids :
            stepper[o].count = 0 => Queue(stepper[o], moves) = <<>>)
    /\ [][QueueStepCritical =>
            LET o == task.oid
                q == Queue(stepper'[o], moves')
            IN  /\ stepper'[o].count > 0
                /\ stepper'[o].armed
                /\ IF stepper[o].count = 0
                   THEN /\ JustLoaded(o)
                        /\ loaded'[o][Len(loaded'[o])].id = moves[task.m].seq
                        /\ q = <<>>
                   ELSE /\ ~JustLoaded(o)
                        /\ q # <<>>
                        /\ q[Len(q)] = task.m]_vars

\* The handler started on an active stepper, and the last step of the last
\* move has fired before its critical section: the stepper is idle.
C13_Witness ==
    /\ task.pc = "queue_step"
    /\ task.active
    /\ stepper[task.oid].count = 0
    /\ ~stepper[task.oid].armed
    /\ loaded[task.oid] # <<>>

\* What a load of descriptor d leaves in the active-move fields, the interval
\* field being d's interval plus extra.
LoadsAs(s, d, extra, s2) ==
    /\ s2.interval = Add32(d.interval, extra)
    /\ s2.add = d.add
    /\ s2.count = d.count
    /\ s2.waketime = Add32(s.waketime, d.interval)

\* A step with a nonzero remainder: wake_time advances by the interval field,
\* which then grows by add.
Ramps(s, s2) ==
    /\ s2.count = s.count - 1
    /\ s2.waketime = Add32(s.waketime, s.interval)
    /\ s2.interval = Add32(s.interval, SignExt32(s.add))
    /\ s2.add = s.add

\* C14 as stated: a load makes the interval, add and count fields those of the
\* descriptor and advances wake_time by the descriptor's interval; a step with
\* a nonzero remainder advances wake_time by the interval field and then adds
\* add to that field.
C14_Original ==
    [][\A o \in MainOids :
          /\ (QueueStepCritical /\ stepper[o].count = 0)
                 => LoadsAs(stepper[o], moves[task.m], Zero32, stepper'[o])
          /\ (TimerEvent(o) /\ JustLoaded(o))
                 => LoadsAs(stepper[o], moves[stepper[o].first], Zero32,
                            stepper'[o])
          /\ (TimerEvent(o) /\ Dec16(stepper[o].count) # 0)
                 => Ramps(stepper[o], stepper'[o])]_vars

\* C14, amended: a load makes the add and count fields those of the
\* descriptor and the interval field the descriptor's interval plus its add
\* (sign-extended, modulo 2^32), the delay from the first step to the second,
\* and advances wake_time by the descriptor's interval; a step with a nonzero
\* remainder advances wake_time by the interval field and then adds add to
\* that field.
C14_LoadAndRamp ==
    [][\A o \in MainOids :
          /\ (QueueStepCritical /\ stepper[o].count = 0)
                 => LoadsAs(stepper[o], moves[task.m],
                            SignExt32(moves[task.m].add), stepper'[o])
          /\ (TimerEvent(o) /\ JustLoaded(o))
                 => LoadsAs(stepper[o], moves[stepper[o].first],
                            SignExt32(moves[stepper[o].first].add),
                            stepper'[o])
          /\ (TimerEvent(o) /\ Dec16(stepper[o].count) # 0)
                 => Ramps(stepper[o], stepper'[o])]_vars

\* Two steps of a move with a negative add, which the timer callback loaded,
\* have fired: the interval field is the move's interval plus three times add.
C14_Witness ==
    /\ stepper[0].count = 1
    /\ Len(loaded[0]) >= 2
    /\ loaded[0][Len(loaded[0])].by = "timer"
    /\ loaded[0][Len(loaded[0])].n = 2
    /\ enq[0][Len(loaded[0])].add < 0
    /\ stepper[0].interval =
           Add32(enq[0][Len(loaded[0])].interval,
                 Mul32(3, SignExt32(enq[0][Len(loaded[0])].add)))

\* p + 1 and p - 1 modulo 2^32, half by half.
Succ32(p) ==
    IF p[2] # M16 - 1 THEN <<p[1], p[2] + 1>>
    ELSE IF p[1] # M16 - 1 THEN <<p[1] + 1, 0>>
    ELSE <<0, 0>>

Pred32(p) ==
    IF p[2] # 0 THEN <<p[1], p[2] - 1>>
    ELSE IF p[1] # 0 THEN <<p[1] - 1, M16 - 1>>
    ELSE <<M16 - 1, M16 - 1>>

\* C15: a timer event changes position by one modulo 2^32, up if the
\* current-direction bit is set and down if not, also from 2^32 - 1 up to 0
\* and from 0 down to 2^32 - 1; it raises no fault, and what it does to the
\* other fields, to the queue, to the pool and to the timer is what it would
\* do at any other position; and only a timer event or set_position changes
\* position.
C15_PositionSteps ==
    [][\A o \in MainOids :
          /\ TimerEvent(o) =>
                 /\ stepper'[o].position =
                        (IF HasBit(stepper[o].flags, SFLAG_CURRENT_DIR)
                         THEN Succ32(stepper[o].position)
                         ELSE Pred32(stepper[o].position))
                 /\ last'.op \notin ShutdownMessages
                 /\ \A p \in {Zero32, U32(M16 - 1, M16 - 1), U32(1, 0)} :
                        LET r == timer_dispatch(
                                     [stepper[o] EXCEPT !.position = p], moves)
                        IN  /\ [r.s EXCEPT !.position = Zero32] =
                                   [stepper'[o] EXCEPT !.position = Zero32]
                            /\ r.mv = moves'
          /\ stepper'[o].position # stepper[o].position =>
                 \/ TimerEvent(o)
                 \/ \E p \in Positions : SetPosition(o, p)]_vars

\* A step up has taken position from 2^32 - 1 to 0 (set_position sets it to
\* 2^32 - 1 only, and the steps of one move all go the same way).
C15_Witness ==
    /\ stepper[0].position = Zero32
    /\ loaded[0] # <<>>
    /\ loaded[0][Len(loaded[0])].up >= 1
    /\ loaded[0][Len(loaded[0])].down = 0

\* C16: Stop leaves position as it is; and from a Stop on, as long as no
\* queue_step has been accepted, the timer of the stepper is disarmed, no
\* timer event of it happens and position changes by set_position only.
C16_StopKeepsPosition ==
    /\ [](\A o \in MainOids : enq[o] = <<>> => ~stepper[o].armed)
    /\ [][\A o \in MainOids :
            /\ Stop(o) =>
                   /\ stepper'[o].position = stepper[o].position
                   /\ enq'[o] = <<>>
            /\ (enq[o] = <<>> /\ enq'[o] = <<>>
                 /\ stepper'[o].position # stepper[o].position)
                   => /\ \E p \in Positions : SetPosition(o, p)
                      /\ ~stepper[o].armed]_vars

\* Stop has just run on an active stepper with a move queued, after steps
\* that had taken position away from 0: position is still away from 0.
C16_Witness ==
    /\ last.op = "stop"
    /\ last.active
    /\ last.qlen >= 1
    /\ stepper[last.oid].position \notin {Zero32, U32(M16 - 1, M16 - 1)}
    /\ stepper[last.oid].count = 0

\* The slots whose content the step changes.
Written == {i \in Slots : moves'[i] # moves[i]}

\* C17: whenever the queue of a stepper is not empty, its tail pointer is at
\* the last descriptor of the queue, which is allocated and has no successor;
\* and the critical section of queue_step on an active stepper writes, besides
\* the descriptor it enqueues, the next link of that last descriptor if the
\* queue is not empty and nothing if it is empty, and leaves the queue as it
\* was with the descriptor added at its end.
C17_TailPointer ==
    /\ [](\A o \in Oids :
            LET q == Queue(stepper[o], moves) IN
            stepper[o].first # NULL =>
                /\ stepper[o].plast = q[Len(q)]
                /\ moves[stepper[o].plast].alloc
                /\ moves[stepper[o].plast].next = NULL)
    /\ [][(QueueStepCritical /\ stepper[task.oid].count > 0) =>
            LET o == task.oid
                q == Queue(stepper[o], moves)
            IN  /\ Queue(stepper'[o], moves') = Append(q, task.m)
                /\ stepper'[o].plast = task.m
                /\ Written \subseteq
                       (IF q = <<>> THEN {task.m} ELSE {task.m, q[Len(q)]})
                /\ \A i \in Written : moves[i].alloc /\ moves'[i].alloc]_vars

\* The timer callback has popped and released the last descriptor of the
\* queue, and two descriptors have been enqueued since, the second through
\* the tail pointer.
C17_Witness ==
    /\ Len(Queue(stepper[0], moves)) = 2
    /\ stepper[0].count > 0
    /\ \E i \in DOMAIN loaded[0] :
           loaded[0][i].by = "timer" /\ loaded[0][i].left = 0

\* C18: the critical section of queue_step on an active stepper leaves
\* count, interval, add, wake_time, both direction bits, position and the
\* armed state of the timer as they were, loads nothing, and leaves the
\* queue as it was, in its order, with the new descriptor after its last.
C18_ActiveEnqueueAppends ==
    [][(QueueStepCritical /\ stepper[task.oid].count > 0) =>
          LET o == task.oid
              s == stepper[o]
              q == Queue(s, moves)
              q2 == Queue(stepper'[o], moves')
          IN  /\ stepper'[o] =
                     [s EXCEPT !.first = stepper'[o].first,
                               !.plast = stepper'[o].plast]
              /\ Len(q2) = Len(q) + 1
              /\ \A i \in DOMAIN q : q2[i] = q[i]
              /\ q2[Len(q2)] = task.m
              /\ \A i \in DOMAIN q :
                     [moves'[q[i]] EXCEPT !.next = NULL] =
                         [moves[q[i]] EXCEPT !.next = NULL]
              /\ loaded'[o] = loaded[o]]_vars

\* A queue_step has been accepted on an active stepper that had a move
\* queued and the next direction set against the current one.
C18_Witness ==
    /\ stepper[0].count > 0
    /\ Len(Queue(stepper[0], moves)) = 2
    /\ task.pc = "idle"
    /\ NextDir(stepper[0]) # CurDir(stepper[0])

\* C19: Stop clears both direction flags of its stepper and a shutdown those
\* of every configured stepper; a clear next-direction flag stays clear until
\* a set_next_step_dir with a nonzero dir; a queue_step that finds it clear
\* gives its move a clear direction bit, which on an idle stepper is the
\* current direction at once; and the steps of a move accepted so lower
\* position.
C19_StopClearsNextDir ==
    /\ [][/\ \A o \in MainOids :
                /\ Stop(o) => stepper'[o].flags = 0
                /\ (NextDir(stepper[o]) = 0 /\ NextDir(stepper'[o]) = 1)
                       => SetNextStepDir(o, 1)
          /\ last'.op \in ShutdownMessages =>
                 \A o \in configured : stepper'[o].flags = 0
          /\ (QueueStepCritical /\ NextDir(stepper[task.oid]) = 0) =>
                 LET o == task.oid IN
                 /\ enq'[o][Len(enq'[o])].dir = 0
                 /\ IF stepper[o].count = 0
                    THEN CurDir(stepper'[o]) = 0
                    ELSE moves'[task.m].flags = 0]_vars
    /\ [](\A o \in MainOids : \A i \in DOMAIN loaded[o] :
            (i <= Len(enq[o]) /\ enq[o][i].dir = 0) =>
                loaded[o][i].down = loaded[o][i].n)

\* The first move accepted since a flush has stepped position down from a
\* value that steps up had reached: the next direction was set before the
\* flush and not after it.
C19_Witness ==
    /\ Len(enq[0]) = 1
    /\ enq[0][1].dir = 0
    /\ enq[0][1].id >= 4
    /\ Len(loaded[0]) = 1
    /\ loaded[0][1].down >= 1
    /\ stepper[0].position \in {U32(0, 0), U32(0, 1)}
    /\ NextDir(stepper[0]) = 0

\* The time of the last step of the i-th move loaded since the flush.
LastStepTime(o, i) ==
    StepTime(loaded[o][i].w0, enq[o][i].interval, enq[o][i].add,
             enq[o][i].count)

\* C20: the timer event that leaves a stepper idle leaves wake_time at the
\* time that event was due; while the stepper is idle, wake_time stays the
\* time of the last step of the last move unless reset_step_clock has run;
\* a move that queue_step loads on the idle stepper is loaded at that time,
\* or at the clock of the reset_step_clock that has run since, or, as the
\* first move since a Stop, a shutdown or the start, at 0 or at such a clock;
\* its first step is due its interval later, modulo 2^32; and Stop sets
\* wake_time to 0.
C20_ClockKept ==
    /\ [][\A o \in MainOids :
            /\ (TimerEvent(o) /\ stepper'[o].count = 0)
                   => stepper'[o].waketime = stepper[o].waketime
            /\ (QueueStepCritical /\ stepper[o].count = 0)
                   => stepper'[o].waketime =
                          Add32(stepper[o].waketime, task.args.interval)
            /\ Stop(o) => stepper'[o].waketime = Zero32]_vars
    /\ [](\A o \in MainOids : \A i \in DOMAIN loaded[o] :
            /\ i <= Len(enq[o])
            /\ (i = Len(loaded[o]) /\ stepper[o].count = 0)
                   => stepper[o].waketime \in
                          (IF loaded[o][i].rc THEN Clocks
                           ELSE {LastStepTime(o, i)})
            /\ (i < Len(loaded[o]) /\ loaded[o][i + 1].by = "queue_step")
                   => loaded[o][i + 1].w0 \in
                          (IF loaded[o][i].rc THEN Clocks
                           ELSE {LastStepTime(o, i)})
            /\ i = 1 => loaded[o][i].w0 \in {Zero32} \cup Clocks
            /\ (i = Len(loaded[o]) /\ stepper[o].count > 0
                 /\ loaded[o][i].n = 0)
                   => stepper[o].waketime =
                          Add32(loaded[o][i].w0, enq[o][i].interval))

\* A move with a negative add has run to its end, and queue_step has loaded
\* the next move on the idle stepper, with no reset_step_clock in between:
\* the base of its first step is the time of that last step, not 0.
C20_Witness ==
    /\ Len(loaded[0]) = 2
    /\ loaded[0][2].by = "queue_step"
    /\ ~loaded[0][1].rc
    /\ enq[0][1].add < 0
    /\ loaded[0][2].w0 = LastStepTime(0, 1)
    /\ loaded[0][2].w0 # Zero32
    /\ stepper[0].count > 0
    /\ loaded[0][2].n = 0

====
